---- MODULE Spec2Model ----
(***************************************************************************)
(* State-machine model of the Real-ESRGAN export scripts:                  *)
(*   scripts/quantize_onnx_fp16.py        (FP32 -> FP16 graph rewrite)     *)
(*   scripts/convert_realesrgan_simple.py (checkpoint -> ONNX, standalone) *)
(*   scripts/convert_realesrgan_to_onnx.py (checkpoint -> ONNX, basicsr)   *)
(* A graph is the ONNX GraphProto: initializers, input/output value infos  *)
(* and nodes with attributes.  Raw payloads are byte sequences and the     *)
(* float32 -> float16 cast is computed on the IEEE bit patterns.           *)
(***************************************************************************)
EXTENDS Integers, Sequences, FiniteSets, TLC

VARIABLES script, pc, args, run, inputFile, model, outputFile,
          checkpoint, state_dict, verifyResult, observed, warnings, exitCode, steps

vars == <<script, pc, args, run, inputFile, model, outputFile,
          checkpoint, state_dict, verifyResult, observed, warnings, exitCode, steps>>

----------------------------------------------------------------------------
(* steps is the log of what the run has done so far: the passes that ran to
   their end, the write of the output file, the verifier's library calls *)

(* Bounds of the model *)

\* longest initializer list of an input graph
MaxInit == 2
\* longest node list of an input graph
MaxNodes == 2
\* largest --tile-size tried
MaxTile == 2
\* how many times the quantizer is run in a row (output fed back as input)
MaxRuns == 2

(* Program constants *)

\* RRDBNet(scale=4): the network's upscale factor
Scale == 4
\* expected_shape = (1, 3, tile_size * 4, tile_size * 4)
ExpectedFactor == 4

\* a path with no file behind it; a variable nothing has been loaded into
NoFile == [absent |-> TRUE]
NoGraph == [unset |-> TRUE]

----------------------------------------------------------------------------
(* numpy: float32 -> float16 on bit patterns (ndarray.astype(np.float16)) *)

RECURSIVE Pow2(_)
Pow2(n) == IF n = 0 THEN 1 ELSE 2 * Pow2(n - 1)

\* q rounded to nearest, ties to even, of sig / 2^s
RoundShift(sig, s) ==
    LET d == Pow2(s)
        q == sig \div d
        r == sig % d
        half == d \div 2
    IN IF r > half \/ (r = half /\ q % 2 = 1) THEN q + 1 ELSE q

\* f is one little-endian float32 <<b0,b1,b2,b3>>; the result is the 16-bit pattern
HalfBits(f) ==
    LET sign == f[4] \div 128
        e == (f[4] % 128) * 2 + f[3] \div 128
        m == (f[3] % 128) * 65536 + f[2] * 256 + f[1]
        mag == IF e = 255
                 THEN (IF m = 0 THEN 31744
                       ELSE IF m \div 8192 = 0 THEN 31745 ELSE 31744 + m \div 8192)
               ELSE IF e > 142 THEN 31744
               ELSE IF e < 102 THEN 0
               ELSE IF e < 113 THEN RoundShift(m + 8388608, 126 - e)
               ELSE RoundShift((e - 112) * 8388608 + m, 13)
    IN sign * 32768 + mag

\* little-endian bytes of a 16-bit pattern
HalfBytes(h) == <<h % 256, h \div 256>>

\* float32_data.astype(np.float16).tobytes() on an array given as a sequence of float32
RECURSIVE astype_float16_tobytes(_)
astype_float16_tobytes(arr) ==
    IF arr = <<>> THEN <<>>
    ELSE HalfBytes(HalfBits(Head(arr))) \o astype_float16_tobytes(Tail(arr))

----------------------------------------------------------------------------
(* onnx.numpy_helper.to_array on a FLOAT tensor *)

RECURSIVE Prod(_)
Prod(dims) == IF dims = <<>> THEN 1 ELSE Head(dims) * Prod(Tail(dims))

\* np.frombuffer(raw, dtype=float32): groups of four bytes
RECURSIVE frombuffer(_)
frombuffer(raw) ==
    IF Len(raw) < 4 THEN <<>>
    ELSE <<SubSeq(raw, 1, 4)>> \o frombuffer(SubSeq(raw, 5, Len(raw)))

\* raw_data wins over float_data; frombuffer needs whole elements and
\* reshape(dims) needs exactly prod(dims) of them, else ValueError
to_array_ok(t) ==
    IF t.has_raw
      THEN Len(t.raw_data) % 4 = 0 /\ Len(t.raw_data) \div 4 = Prod(t.dims)
      ELSE Len(t.float_data) = Prod(t.dims)

to_array(t) == IF t.has_raw THEN frombuffer(t.raw_data) ELSE t.float_data

----------------------------------------------------------------------------
(* The graphs the quantizer is tried on *)

F32_one == <<0, 0, 128, 63>>
F32_negone == <<0, 0, 128, 191>>
F32_pi == <<208, 15, 73, 64>>
F32_1e30 == <<202, 242, 73, 113>>
F32_1e_10 == <<255, 230, 219, 46>>
F32_0_2 == <<205, 204, 76, 62>>

Tensor(name, tag, dims, raw) ==
    [name |-> name, data_type |-> tag, dims |-> dims,
     has_raw |-> TRUE, raw_data |-> raw, float_data |-> <<>>]

\* the protobuf default of an unset tensor field
EmptyTensor ==
    [name |-> "", data_type |-> "UNDEFINED", dims |-> <<>>,
     has_raw |-> FALSE, raw_data |-> <<>>, float_data |-> <<>>]

\* a FLOAT weight stored in raw_data
W_raw == Tensor("conv_first.weight", "FLOAT", <<2>>, F32_one \o F32_pi)
\* a FLOAT weight stored in the typed float_data field
W_fd ==
    [name |-> "conv_first.bias", data_type |-> "FLOAT", dims |-> <<1, 2>>,
     has_raw |-> FALSE, raw_data |-> <<>>, float_data |-> <<F32_1e30, F32_1e_10>>]
\* shape says 2 elements, payload holds 3
W_bad == Tensor("conv_body.weight", "FLOAT", <<2>>, F32_one \o F32_pi \o F32_negone)
W_half == Tensor("conv_up1.weight", "FLOAT16", <<1>>, <<0, 60>>)
W_int == Tensor("shape_const", "INT64", <<1>>, <<3, 0, 0, 0, 0, 0, 0, 0>>)
\* an INT64 tensor whose shape says 2 elements and whose payload holds 1
W_intbad == Tensor("roi", "INT64", <<2>>, <<1, 0, 0, 0, 0, 0, 0, 0>>)

TensorPool == {W_raw, W_fd, W_bad, W_half, W_int, W_intbad}

Dim(n) == [value |-> n]
Sym(s) == [param |-> s]
DynShape == <<Sym("batch"), Dim(3), Sym("height"), Sym("width")>>

ValueInfo(name, tag, shape) == [name |-> name, elem_type |-> tag, shape |-> shape]

\* input / output declaration lists
Interfaces ==
    { [input |-> <<ValueInfo("input", "FLOAT", DynShape)>>,
       output |-> <<ValueInfo("output", "FLOAT", DynShape)>>],
      [input |-> <<ValueInfo("input", "FLOAT16", DynShape)>>,
       output |-> <<ValueInfo("output", "FLOAT16", DynShape)>>],
      [input |-> <<ValueInfo("input", "FLOAT", <<Dim(1), Dim(3), Dim(1), Dim(1)>>),
                   ValueInfo("mask", "INT64", <<Dim(1)>>)>>,
       output |-> <<ValueInfo("output", "FLOAT", <<Dim(1), Dim(3), Dim(4), Dim(4)>>),
                    ValueInfo("count", "INT64", <<Dim(1)>>)>>] }

Attr(name, type) ==
    [name |-> name, type |-> type, has_t |-> FALSE, t |-> EmptyTensor,
     tensors |-> <<>>, f |-> <<>>, ints |-> <<>>]

AttrT(name, t) == [Attr(name, "TENSOR") EXCEPT !.has_t = TRUE, !.t = t]

Node(op, ins, outs, attrs) ==
    [op_type |-> op, input |-> ins, output |-> outs, attribute |-> attrs]

\* scalar and list-of-scalar attributes only
N_conv ==
    Node("Conv", <<"input", "conv_first.weight">>, <<"feat">>,
         <<[Attr("pads", "INTS") EXCEPT !.ints = <<1, 1, 1, 1>>],
           [Attr("alpha", "FLOAT") EXCEPT !.f = F32_0_2]>>)
\* a constant-folded FLOAT operand, then an INT64 one
N_const ==
    Node("Constant", <<>>, <<"c0">>,
         <<AttrT("value", Tensor("", "FLOAT", <<>>, F32_negone)),
           AttrT("aux", W_int)>>)
\* a FLOAT operand, then one whose shape says 2 elements and payload holds 1
N_constbad ==
    Node("Constant", <<>>, <<"c1">>,
         <<AttrT("value", Tensor("", "FLOAT", <<1>>, F32_pi)),
           AttrT("value2", Tensor("", "FLOAT", <<2>>, F32_one))>>)
\* a list-of-tensors attribute holding a FLOAT tensor
N_list ==
    Node("Custom", <<"feat">>, <<"output">>,
         <<[Attr("values", "TENSORS") EXCEPT
               !.tensors = <<Tensor("", "FLOAT", <<1>>, F32_one)>>]>>)

NodePool == {N_conv, N_const, N_constbad, N_list}

\* sequences of distinct elements of S, of length at most n
InjSeqs(S, n) ==
    UNION { { s \in [1..k -> S] : \A i, j \in 1..k : i # j => s[i] # s[j] } : k \in 0..n }

Graphs ==
    { [initializer |-> ini, input |-> io.input, output |-> io.output, node |-> nd] :
        ini \in InjSeqs(TensorPool, MaxInit), io \in Interfaces,
        nd \in InjSeqs(NodePool, MaxNodes) }

----------------------------------------------------------------------------
(* quantize_to_fp16: the three passes *)

\* mutant: the data_type assignment is forgotten
ConvertTensor_no_retag(t) ==
    [t EXCEPT !.float_data = <<>>, !.has_raw = TRUE,
              !.raw_data = astype_float16_tobytes(to_array(t))]

\* ndarray.tobytes() of an array of whole elements
RECURSIVE tobytes(_)
tobytes(arr) == IF arr = <<>> THEN <<>> ELSE Head(arr) \o tobytes(Tail(arr))

\* mutant: the astype(np.float16) cast is forgotten, the float32 bytes are stored
ConvertTensor_no_cast(t) ==
    [t EXCEPT !.float_data = <<>>, !.has_raw = TRUE, !.data_type = "FLOAT16",
              !.raw_data = tobytes(to_array(t))]

\* mutant: the array is flattened and dims rewritten to its length
ConvertTensor_flattened(t) ==
    [t EXCEPT !.float_data = <<>>, !.has_raw = TRUE, !.data_type = "FLOAT16",
              !.dims = <<Prod(t.dims)>>,
              !.raw_data = astype_float16_tobytes(to_array(t))]

\* lines 32-39: decode, cast, clear both payload fields, retag, store raw bytes
ConvertTensor(t) ==
    [t EXCEPT !.float_data = <<>>, !.has_raw = TRUE, !.data_type = "FLOAT16",
              !.raw_data = astype_float16_tobytes(to_array(t))]

initializer_guard(t) == t.data_type = "FLOAT"

\* the loop over model.graph.initializer; a ValueError of to_array leaves the
\* tensors before it converted and the rest as they were
RECURSIVE ConvertInitializers(_)
ConvertInitializers(ts) ==
    IF ts = <<>> THEN [ok |-> TRUE, out |-> <<>>]
    ELSE IF ~initializer_guard(Head(ts))
      THEN LET rest == ConvertInitializers(Tail(ts))
           IN [ok |-> rest.ok, out |-> <<Head(ts)>> \o rest.out]
    ELSE IF ~to_array_ok(Head(ts)) THEN [ok |-> FALSE, out |-> ts]
    ELSE LET rest == ConvertInitializers(Tail(ts))
         IN [ok |-> rest.ok, out |-> <<ConvertTensor(Head(ts))>> \o rest.out]

\* mutant: "anything not yet FP16" instead of "FLOAT"
input_guard_not_fp16(v) == v.elem_type # "FLOAT16"

input_guard(v) == v.elem_type = "FLOAT"
output_guard(v) == v.elem_type = "FLOAT"

RetagInput(v) == IF input_guard(v) THEN [v EXCEPT !.elem_type = "FLOAT16"] ELSE v
\* mutant: the output loop is forgotten
RetagOutput_skipped(v) == v

RetagOutput(v) == IF output_guard(v) THEN [v EXCEPT !.elem_type = "FLOAT16"] ELSE v

attr_guard(a) == a.has_t /\ a.t.data_type = "FLOAT"

\* lines 54-59 on attr.t
ConvertAttr(a) == [a EXCEPT !.t = ConvertTensor(a.t)]

\* mutant: the attribute list is rebuilt from the converted tensors only
RECURSIVE ConvertAttrs_rebuilt(_)
ConvertAttrs_rebuilt(as) ==
    IF as = <<>> THEN [ok |-> TRUE, out |-> <<>>]
    ELSE IF ~attr_guard(Head(as)) THEN ConvertAttrs_rebuilt(Tail(as))
    ELSE IF ~to_array_ok(Head(as).t) THEN [ok |-> FALSE, out |-> as]
    ELSE LET rest == ConvertAttrs_rebuilt(Tail(as))
         IN [ok |-> rest.ok, out |-> <<ConvertAttr(Head(as))>> \o rest.out]

RECURSIVE ConvertAttrs(_)
ConvertAttrs(as) ==
    IF as = <<>> THEN [ok |-> TRUE, out |-> <<>>]
    ELSE IF ~attr_guard(Head(as))
      THEN LET rest == ConvertAttrs(Tail(as))
           IN [ok |-> rest.ok, out |-> <<Head(as)>> \o rest.out]
    ELSE IF ~to_array_ok(Head(as).t) THEN [ok |-> FALSE, out |-> as]
    ELSE LET rest == ConvertAttrs(Tail(as))
         IN [ok |-> rest.ok, out |-> <<ConvertAttr(Head(as))>> \o rest.out]

RECURSIVE ConvertNodes(_)
ConvertNodes(ns) ==
    IF ns = <<>> THEN [ok |-> TRUE, out |-> <<>>]
    ELSE LET a == ConvertAttrs(Head(ns).attribute)
             n == [Head(ns) EXCEPT !.attribute = a.out]
         IN IF ~a.ok THEN [ok |-> FALSE, out |-> <<n>> \o Tail(ns)]
            ELSE LET rest == ConvertNodes(Tail(ns))
                 IN [ok |-> rest.ok, out |-> <<n>> \o rest.out]

----------------------------------------------------------------------------
(* Checkpoints and the exported graph (the two converter scripts) *)

\* the parameter names RRDBNet expects, cut down to one
ExpectedKeys == {"conv_first.weight"}

Weights == {[w |-> F32_one], [w |-> F32_pi]}

\* a state dict: parameter name -> tensor
StateDicts ==
    [ExpectedKeys -> Weights] \cup {[k \in {"unexpected.weight"} |-> [w |-> F32_one]]}

CheckpointKeys == {"params_ema", "params", "conv_first.weight"}

\* what torch.load can hand back: any subset of the keys, nested state dicts
\* under "params_ema" / "params", a bare tensor under a parameter name
Checkpoints ==
    UNION { { cp \in [K -> StateDicts \cup Weights] :
                \A k \in K : IF k \in {"params_ema", "params"}
                               THEN cp[k] \in StateDicts ELSE cp[k] \in Weights }
            : K \in SUBSET CheckpointKeys }

\* convert_realesrgan_simple.py, load_model: lines 109-117
load_model_select(cp) ==
    IF "params_ema" \in DOMAIN cp THEN cp["params_ema"]
    ELSE IF "params" \in DOMAIN cp THEN cp["params"]
    ELSE cp

\* mutant: "params" is tried before "params_ema"
load_realesrgan_model_select_params_first(cp) ==
    IF "params" \in DOMAIN cp THEN cp["params"]
    ELSE IF "params_ema" \in DOMAIN cp THEN cp["params_ema"]
    ELSE cp

\* convert_realesrgan_to_onnx.py, load_realesrgan_model: lines 41-49
load_realesrgan_model_select(cp) ==
    IF "params_ema" \in DOMAIN cp THEN cp["params_ema"]
    ELSE IF "params" \in DOMAIN cp THEN cp["params"]
    ELSE cp

\* model.load_state_dict(sd, strict=True): missing or unexpected keys raise
load_state_dict_ok(sd) == DOMAIN sd = ExpectedKeys

\* torch.onnx.export with export_params=True and dynamic batch/height/width:
\* a FLOAT graph holding the loaded weights
export_graph(sd) ==
    [initializer |-> <<Tensor("conv_first.weight", "FLOAT", <<1>>,
                              sd["conv_first.weight"].w)>>,
     input |-> <<ValueInfo("input", "FLOAT", DynShape)>>,
     output |-> <<ValueInfo("output", "FLOAT", DynShape)>>,
     node |-> <<N_conv>>]

----------------------------------------------------------------------------
(* Verification: onnx.checker and an onnxruntime session on a random input *)

\* what the libraries outside the scripts can do to a verification
Envs == {"ok", "import_error", "check_error", "run_error"}

DimAccepts(d, n) == IF "param" \in DOMAIN d THEN TRUE ELSE d.value = n

\* session.run with one input array of element type dtype and the given shape:
\* onnxruntime rejects an array whose type or shape is not the declared one
run_accepts(g, dtype, shape) ==
    /\ g.input # <<>>
    /\ g.output # <<>>
    /\ g.input[1].elem_type = dtype
    /\ Len(g.input[1].shape) = Len(shape)
    /\ \A i \in 1..Len(shape) : DimAccepts(g.input[1].shape[i], shape[i])

\* the network upscales height and width
run_output_shape(shape) == <<shape[1], 3, shape[3] * Scale, shape[4] * Scale>>

\* dummy_input = np.random.randn(1, 3, tile, tile).astype(np.float32)
dummy_dtype == "FLOAT"
dummy_shape(tile) == <<1, 3, tile, tile>>
expected_shape(tile) == <<1, 3, tile * ExpectedFactor, tile * ExpectedFactor>>

\* verify_fp16_model (quantize_onnx_fp16.py 74-94): no checker call
verify_fp16_model(g, tile, env) ==
    IF env \in {"import_error", "run_error"} THEN [result |-> "run_failed", shape |-> <<>>]
    ELSE IF ~run_accepts(g, dummy_dtype, dummy_shape(tile))
      THEN [result |-> "input_rejected", shape |-> <<>>]
    ELSE IF run_output_shape(dummy_shape(tile)) # expected_shape(tile)
      THEN [result |-> "shape_mismatch", shape |-> run_output_shape(dummy_shape(tile))]
    ELSE [result |-> "ok", shape |-> run_output_shape(dummy_shape(tile))]

\* verify_onnx_model (convert_realesrgan_to_onnx.py 84-112) and the body of the
\* try block of verify_onnx (convert_realesrgan_simple.py 160-186)
verify_onnx_model(g, tile, env) ==
    IF env = "import_error" THEN [result |-> "import_failed", shape |-> <<>>]
    ELSE IF env = "check_error" THEN [result |-> "check_failed", shape |-> <<>>]
    ELSE IF env = "run_error" THEN [result |-> "run_failed", shape |-> <<>>]
    ELSE IF ~run_accepts(g, dummy_dtype, dummy_shape(tile))
      THEN [result |-> "input_rejected", shape |-> <<>>]
    ELSE IF run_output_shape(dummy_shape(tile)) # expected_shape(tile)
      THEN [result |-> "shape_mismatch", shape |-> run_output_shape(dummy_shape(tile))]
    ELSE [result |-> "ok", shape |-> run_output_shape(dummy_shape(tile))]

\* the library calls verify_fp16_model gets to make: a session is created and
\* run (lines 81-88); onnx.checker is never called
verify_fp16_model_steps(env) ==
    IF env = "import_error" THEN <<>> ELSE <<"session_run">>

\* the library calls verify_onnx_model / verify_onnx get to make:
\* onnx.checker.check_model first, the session only when it did not raise
verify_onnx_model_steps(env) ==
    IF env = "import_error" THEN <<>>
    ELSE IF env = "check_error" THEN <<"check_model">>
    ELSE <<"check_model", "session_run">>

----------------------------------------------------------------------------
(* Initial states: one script started on one input with one set of flags *)

Args == [verify : BOOLEAN, tile_size : 1..MaxTile]

InitQuantize ==
    /\ script = "quantize"
    /\ inputFile \in Graphs \cup {NoFile}
    /\ checkpoint = NoFile
    /\ run = 1

InitConvert ==
    /\ script \in {"simple", "to_onnx"}
    /\ inputFile = NoFile
    /\ checkpoint \in Checkpoints \cup {NoFile}
    /\ run = 1

Init ==
    /\ InitQuantize \/ InitConvert
    /\ pc = "main"
    /\ args \in Args
    /\ model = NoGraph
    /\ outputFile = NoFile
    /\ state_dict = NoGraph
    /\ verifyResult = "none"
    /\ observed = <<>>
    /\ warnings = <<>>
    /\ exitCode = "running"
    /\ steps = <<>>

----------------------------------------------------------------------------
(* quantize_onnx_fp16.py *)

\* main, lines 111-113: a missing input prints an error and returns 1
quantize_main ==
    /\ script = "quantize" /\ pc = "main"
    /\ IF inputFile = NoFile
         THEN pc' = "exit" /\ exitCode' = "1"
         ELSE pc' = "load" /\ exitCode' = exitCode
    /\ UNCHANGED <<script, args, run, inputFile, model, outputFile, checkpoint,
                   state_dict, verifyResult, observed, warnings, steps>>

\* line 24: model = onnx.load(input_path)
quantize_load ==
    /\ script = "quantize" /\ pc = "load"
    /\ model' = inputFile
    /\ pc' = "initializers"
    /\ UNCHANGED <<script, args, run, inputFile, outputFile, checkpoint,
                   state_dict, verifyResult, observed, warnings, exitCode, steps>>

\* mutant: the conversion sits in a try block whose except clause passes
initializer_pass_swallow ==
    /\ script = "quantize" /\ pc = "initializers"
    /\ LET r == ConvertInitializers(model.initializer)
       IN /\ model' = [model EXCEPT !.initializer = r.out]
          /\ steps' = IF r.ok THEN Append(steps, "initializer_pass") ELSE steps
          /\ pc' = "interfaces" /\ exitCode' = exitCode
    /\ UNCHANGED <<script, args, run, inputFile, outputFile, checkpoint,
                   state_dict, verifyResult, observed, warnings>>

\* lines 29-39; an exception leaves main with a traceback
initializer_pass ==
    /\ script = "quantize" /\ pc = "initializers"
    /\ LET r == ConvertInitializers(model.initializer)
       IN /\ model' = [model EXCEPT !.initializer = r.out]
          /\ steps' = IF r.ok THEN Append(steps, "initializer_pass") ELSE steps
          /\ IF r.ok THEN pc' = "interfaces" /\ exitCode' = exitCode
                     ELSE pc' = "exit" /\ exitCode' = "exception"
    /\ UNCHANGED <<script, args, run, inputFile, outputFile, checkpoint,
                   state_dict, verifyResult, observed, warnings>>

\* lines 42-48
interface_pass ==
    /\ script = "quantize" /\ pc = "interfaces"
    /\ model' = [model EXCEPT
                   !.input = [i \in DOMAIN model.input |-> RetagInput(model.input[i])],
                   !.output = [i \in DOMAIN model.output |-> RetagOutput(model.output[i])]]
    /\ pc' = "nodes"
    /\ steps' = Append(steps, "interface_pass")
    /\ UNCHANGED <<script, args, run, inputFile, outputFile, checkpoint,
                   state_dict, verifyResult, observed, warnings, exitCode>>

\* mutant: the save sits in a finally block, so a failed pass is written out
node_pass_save_always ==
    /\ script = "quantize" /\ pc = "nodes"
    /\ LET r == ConvertNodes(model.node)
       IN /\ model' = [model EXCEPT !.node = r.out]
          /\ steps' = IF r.ok THEN Append(steps, "node_pass") ELSE steps
          /\ outputFile' = model'
          /\ IF r.ok THEN pc' = "save" /\ exitCode' = exitCode
                     ELSE pc' = "exit" /\ exitCode' = "exception"
    /\ UNCHANGED <<script, args, run, inputFile, checkpoint,
                   state_dict, verifyResult, observed, warnings>>

\* lines 51-59
node_pass ==
    /\ script = "quantize" /\ pc = "nodes"
    /\ LET r == ConvertNodes(model.node)
       IN /\ model' = [model EXCEPT !.node = r.out]
          /\ steps' = IF r.ok THEN Append(steps, "node_pass") ELSE steps
          /\ IF r.ok THEN pc' = "save" /\ exitCode' = exitCode
                     ELSE pc' = "exit" /\ exitCode' = "exception"
    /\ UNCHANGED <<script, args, run, inputFile, outputFile, checkpoint,
                   state_dict, verifyResult, observed, warnings>>

\* line 62: onnx.save(model, output_path)
quantize_save ==
    /\ script = "quantize" /\ pc = "save"
    /\ outputFile' = model
    /\ pc' = "verify"
    /\ steps' = Append(steps, "save")
    /\ UNCHANGED <<script, args, run, inputFile, model, checkpoint,
                   state_dict, verifyResult, observed, warnings, exitCode>>

\* main, lines 128-137: verify_fp16_model is called bare, so whatever it
\* raises ends the process; otherwise main returns 0
quantize_verify ==
    /\ script = "quantize" /\ pc = "verify"
    /\ \E env \in Envs :
         LET v == verify_fp16_model(outputFile, args.tile_size, env)
         IN IF ~args.verify
              THEN verifyResult' = verifyResult /\ observed' = observed /\ exitCode' = "0"
                   /\ steps' = steps
              ELSE /\ verifyResult' = v.result
                   /\ steps' = steps \o verify_fp16_model_steps(env)
                   /\ observed' = v.shape
                   /\ exitCode' = IF v.result = "ok" THEN "0" ELSE "exception"
    /\ pc' = "exit"
    /\ UNCHANGED <<script, args, run, inputFile, model, outputFile, checkpoint,
                   state_dict, warnings>>

\* the script is started again on the file it wrote
quantize_again ==
    /\ script = "quantize" /\ pc = "exit" /\ outputFile # NoFile
    /\ run < MaxRuns
    /\ run' = run + 1
    /\ inputFile' = outputFile
    /\ outputFile' = NoFile
    /\ model' = NoGraph
    /\ pc' = "main"
    /\ exitCode' = "running"
    /\ verifyResult' = "none"
    /\ observed' = <<>>
    /\ steps' = <<>>
    /\ UNCHANGED <<script, args, checkpoint, state_dict, warnings>>

----------------------------------------------------------------------------
(* convert_realesrgan_simple.py and convert_realesrgan_to_onnx.py *)

\* main: a missing checkpoint file prints an error and returns 1
convert_main ==
    /\ script \in {"simple", "to_onnx"} /\ pc = "main"
    /\ IF checkpoint = NoFile
         THEN pc' = "exit" /\ exitCode' = "1"
         ELSE pc' = "load_model" /\ exitCode' = exitCode
    /\ UNCHANGED <<script, args, run, inputFile, model, outputFile, checkpoint,
                   state_dict, verifyResult, observed, warnings, steps>>

\* load_model / load_realesrgan_model: pick the entry, load it strictly
convert_load ==
    /\ script \in {"simple", "to_onnx"} /\ pc = "load_model"
    /\ LET sd == IF script = "simple" THEN load_model_select(checkpoint)
                 ELSE load_realesrgan_model_select(checkpoint)
       IN /\ state_dict' = sd
          /\ IF load_state_dict_ok(sd)
               THEN pc' = "export" /\ exitCode' = exitCode
               ELSE pc' = "exit" /\ exitCode' = "exception"
    /\ UNCHANGED <<script, args, run, inputFile, model, outputFile, checkpoint,
                   verifyResult, observed, warnings, steps>>

\* export_to_onnx: the graph is written to the output path
convert_export ==
    /\ script \in {"simple", "to_onnx"} /\ pc = "export"
    /\ outputFile' = export_graph(state_dict)
    /\ pc' = "verify"
    /\ steps' = Append(steps, "export")
    /\ UNCHANGED <<script, args, run, inputFile, model, checkpoint,
                   state_dict, verifyResult, observed, warnings, exitCode>>

\* convert_realesrgan_simple.py: main 218-227 with verify_onnx 157-191.  The
\* try block turns ImportError into a "skipping" line and every other
\* exception into a "Verification failed" line; main always returns 0
simple_verify ==
    /\ script = "simple" /\ pc = "verify"
    /\ \E env \in Envs :
         LET v == verify_onnx_model(outputFile, args.tile_size, env)
         IN IF ~args.verify
              THEN verifyResult' = verifyResult /\ observed' = observed
                   /\ warnings' = warnings /\ steps' = steps
              ELSE /\ verifyResult' = v.result
                   /\ steps' = steps \o verify_onnx_model_steps(env)
                   /\ observed' = v.shape
                   /\ warnings' = IF v.result = "ok" THEN warnings
                                  ELSE IF v.result = "import_failed"
                                    THEN Append(warnings, "Skipping verification")
                                  ELSE Append(warnings, "Verification failed")
    /\ exitCode' = "0"
    /\ pc' = "exit"
    /\ UNCHANGED <<script, args, run, inputFile, model, outputFile, checkpoint,
                   state_dict>>

\* convert_realesrgan_to_onnx.py: main 148-158 with verify_onnx_model 84-112,
\* called bare
to_onnx_verify ==
    /\ script = "to_onnx" /\ pc = "verify"
    /\ \E env \in Envs :
         LET v == verify_onnx_model(outputFile, args.tile_size, env)
         IN IF ~args.verify
              THEN verifyResult' = verifyResult /\ observed' = observed /\ exitCode' = "0"
                   /\ steps' = steps
              ELSE /\ verifyResult' = v.result
                   /\ steps' = steps \o verify_onnx_model_steps(env)
                   /\ observed' = v.shape
                   /\ exitCode' = IF v.result = "ok" THEN "0" ELSE "exception"
    /\ pc' = "exit"
    /\ UNCHANGED <<script, args, run, inputFile, model, outputFile, checkpoint,
                   state_dict, warnings>>

----------------------------------------------------------------------------

Next ==
    \/ quantize_main
    \/ quantize_load
    \/ initializer_pass
    \/ interface_pass
    \/ node_pass
    \/ quantize_save
    \/ quantize_verify
    \/ quantize_again
    \/ convert_main
    \/ convert_load
    \/ convert_export
    \/ simple_verify
    \/ to_onnx_verify

Spec == Init /\ [][Next]_vars

----------------------------------------------------------------------------
(* Vocabulary of the properties *)

Idx(q) == DOMAIN q

\* the quantizer holds a loaded graph
Loaded == script = "quantize" /\ model # NoGraph
\* quantize_to_fp16 ran to its end in this run: the output file is written
Completed == script = "quantize" /\ outputFile # NoFile
\* quantize_to_fp16 raised inside a pass
PassFailed ==
    script = "quantize" /\ pc = "exit" /\ exitCode = "exception" /\ verifyResult = "none"

InitTags(g) == { g.initializer[i].data_type : i \in Idx(g.initializer) }
DeclTags(g) ==
    { g.input[i].elem_type : i \in Idx(g.input) } \cup
    { g.output[i].elem_type : i \in Idx(g.output) }

\* every tensor embedded in a node attribute: the single tensor of an
\* attribute and the members of a list-of-tensors attribute
AttrTensors(g) ==
    UNION { UNION { (IF g.node[n].attribute[a].has_t
                       THEN {g.node[n].attribute[a].t} ELSE {}) \cup
                    { g.node[n].attribute[a].tensors[k] :
                        k \in Idx(g.node[n].attribute[a].tensors) }
                    : a \in Idx(g.node[n].attribute) }
            : n \in Idx(g.node) }
AttrTags(g) == { t.data_type : t \in AttrTensors(g) }

\* initializers and declarations are all tagged FLOAT, and there is one of each
AllFloat32(g) ==
    /\ g.initializer # <<>>
    /\ InitTags(g) \cup DeclTags(g) = {"FLOAT"}

\* no FLOAT tag anywhere
NoFloat32(g) == "FLOAT" \notin InitTags(g) \cup DeclTags(g) \cup AttrTags(g)

----------------------------------------------------------------------------
(* C1: when the quantizer has completed on a graph whose initializers and
   declarations are all tagged FLOAT, every initializer, every input
   declaration and every output declaration of the written graph is tagged
   FLOAT16 and none is tagged FLOAT. *)
C1_AllRetagged ==
    (Completed /\ AllFloat32(inputFile)) =>
        /\ InitTags(outputFile) = {"FLOAT16"}
        /\ DeclTags(outputFile) = {"FLOAT16"}
        /\ Len(outputFile.initializer) = Len(inputFile.initializer)

C1_Witness ==
    /\ Completed /\ AllFloat32(inputFile) /\ run = 1
    /\ Len(inputFile.initializer) >= 2
    /\ InitTags(outputFile) = {"FLOAT16"}

(* C2: a pass that hits a tensor whose payload length does not fit its shape
   and type ends the run with an exception, and that step leaves the graph
   file it read as it was and writes no output file: nothing of the partly
   rewritten in-memory graph is left to observe. *)
C2_FailureLeavesGraph ==
    [][ (script = "quantize" /\ pc \in {"initializers", "nodes"}
           /\ exitCode' = "exception")
        => (pc' = "exit" /\ inputFile' = inputFile /\ outputFile' = NoFile
              /\ outputFile = NoFile) ]_vars

\* a node pass failed after the initializer pass had rewritten a tensor
C2_Witness ==
    /\ PassFailed /\ outputFile = NoFile
    /\ model.initializer # inputFile.initializer
    /\ model.node # inputFile.node

(* C3: when the quantizer has rewritten a graph whose first input was
   declared FLOAT and the verifier has run on the written file (the
   libraries themselves not failing), the verifier's input is accepted:
   verification succeeds, observes (1, 3, 4T, 4T), and the declarations of
   the written graph are FLOAT16. *)
C3_VerifierAccepts ==
    (Completed /\ pc = "exit" /\ args.verify
       /\ inputFile.input[1].elem_type = "FLOAT"
       /\ verifyResult \notin {"none", "run_failed"}) =>
        /\ verifyResult = "ok"
        /\ observed = <<1, 3, ExpectedFactor * args.tile_size,
                        ExpectedFactor * args.tile_size>>
        /\ outputFile.input[1].elem_type = "FLOAT16"
        /\ outputFile.output[1].elem_type = "FLOAT16"

(* C4: when the quantizer has completed, no tensor embedded in a node
   attribute of the written graph is tagged FLOAT. *)
C4_NoFloatAttrTensor ==
    Completed => "FLOAT" \notin AttrTags(outputFile)

(* C5: a run of the quantizer on a graph the quantizer wrote ends with the
   output written and equal to the graph it read, and the in-memory graph
   never differs from the graph read. *)
C5_SecondRunNoOp ==
    (script = "quantize" /\ run >= 2) =>
        /\ Loaded => model = inputFile
        /\ pc = "exit" => (outputFile # NoFile /\ outputFile = inputFile)

\* the first run did rewrite something, the second has ended
C5_Witness ==
    /\ script = "quantize" /\ run = 2 /\ pc = "exit"
    /\ outputFile = inputFile
    /\ "FLOAT16" \in InitTags(inputFile) /\ "FLOAT16" \in AttrTags(inputFile)
    /\ "FLOAT16" \in DeclTags(inputFile)

\* an attribute that holds no FLOAT tensor
NonFloatAttr(a) ==
    /\ ~(a.has_t /\ a.t.data_type = "FLOAT")
    /\ \A k \in Idx(a.tensors) : a.tensors[k].data_type # "FLOAT"

SameStructure(g, h) ==
    /\ Len(g.node) = Len(h.node)
    /\ \A n \in Idx(g.node) :
         /\ g.node[n].op_type = h.node[n].op_type
         /\ g.node[n].input = h.node[n].input
         /\ g.node[n].output = h.node[n].output
         /\ Len(g.node[n].attribute) = Len(h.node[n].attribute)
         /\ \A a \in Idx(g.node[n].attribute) :
              /\ g.node[n].attribute[a].name = h.node[n].attribute[a].name
              /\ NonFloatAttr(g.node[n].attribute[a]) =>
                   h.node[n].attribute[a] = g.node[n].attribute[a]

(* C6: at every point of the rewrite, and in the file it writes, the graph
   has the nodes of the graph read: same count, same order, same operator
   types, same input and output reference lists, and every attribute that
   holds no FLOAT tensor identical. *)
C6_StructurePreserved ==
    /\ Loaded => SameStructure(inputFile, model)
    /\ Completed => SameStructure(inputFile, outputFile)

\* a node with scalar attributes stands after a node whose constant was rewritten
C6_Witness ==
    /\ Completed /\ run = 1
    /\ Len(inputFile.node) = 2
    /\ inputFile.node[1] = N_const /\ inputFile.node[2] = N_conv
    /\ outputFile.node[1] # N_const /\ outputFile.node[2] = N_conv

\* what was not tagged FLOAT in g is identical in h
NonFloatKept(g, h) ==
    /\ Len(h.initializer) = Len(g.initializer)
    /\ \A i \in Idx(g.initializer) :
         g.initializer[i].data_type # "FLOAT" => h.initializer[i] = g.initializer[i]
    /\ Len(h.input) = Len(g.input) /\ Len(h.output) = Len(g.output)
    /\ \A i \in Idx(g.input) : g.input[i].elem_type # "FLOAT" => h.input[i] = g.input[i]
    /\ \A i \in Idx(g.output) : g.output[i].elem_type # "FLOAT" => h.output[i] = g.output[i]
    /\ Len(h.node) = Len(g.node)
    /\ \A n \in Idx(g.node) :
         /\ Len(h.node[n].attribute) = Len(g.node[n].attribute)
         /\ \A a \in Idx(g.node[n].attribute) :
              LET ga == g.node[n].attribute[a]
                  ha == h.node[n].attribute[a]
              IN /\ (ga.has_t /\ ga.t.data_type # "FLOAT") => ha.t = ga.t
                 /\ Len(ha.tensors) = Len(ga.tensors)
                 /\ \A k \in Idx(ga.tensors) :
                      ga.tensors[k].data_type # "FLOAT" => ha.tensors[k] = ga.tensors[k]

(* C7: every initializer, declaration and embedded attribute tensor whose
   tag is not FLOAT keeps its tag and payload at every point of the rewrite
   and in the written file; and a graph with no FLOAT tag at all never makes
   a pass fail and is written out unchanged. *)
C7_NonFloatUntouched ==
    /\ Loaded => NonFloatKept(inputFile, model)
    /\ Completed => NonFloatKept(inputFile, outputFile)
    /\ (Loaded /\ NoFloat32(inputFile)) =>
          /\ ~PassFailed
          /\ model = inputFile
          /\ pc \in {"verify", "exit"} => outputFile = inputFile

\* FLOAT16 and INT64 artifacts sat beside rewritten FLOAT ones
C7_Witness ==
    /\ Completed /\ run = 1
    /\ {"FLOAT16", "INT64"} \subseteq InitTags(inputFile)
    /\ "INT64" \in DeclTags(inputFile) /\ "INT64" \in AttrTags(inputFile)
    /\ "FLOAT" \in DeclTags(inputFile) /\ "FLOAT" \in AttrTags(inputFile)
    /\ outputFile # inputFile

\* a graph with no FLOAT tag went through the first run
C7_WitnessNoFloat ==
    /\ Completed /\ run = 1 /\ NoFloat32(inputFile)
    /\ inputFile.initializer # <<>> /\ inputFile.node # <<>>

ShapesKept(g, h) ==
    /\ Len(h.initializer) = Len(g.initializer)
    /\ \A i \in Idx(g.initializer) : h.initializer[i].dims = g.initializer[i].dims
    /\ Len(h.input) = Len(g.input) /\ Len(h.output) = Len(g.output)
    /\ \A i \in Idx(g.input) :
         h.input[i] = [g.input[i] EXCEPT !.elem_type = h.input[i].elem_type]
    /\ \A i \in Idx(g.output) :
         h.output[i] = [g.output[i] EXCEPT !.elem_type = h.output[i].elem_type]
    /\ Len(h.node) = Len(g.node)
    /\ \A n \in Idx(g.node) :
         /\ Len(h.node[n].attribute) = Len(g.node[n].attribute)
         /\ \A a \in Idx(g.node[n].attribute) :
              h.node[n].attribute[a].t.dims = g.node[n].attribute[a].t.dims

(* C8: at every point of the rewrite and in the written file every
   initializer and attribute tensor has the dims it was read with, and every
   input and output declaration differs from the one read in nothing but its
   element type: name and shape, symbolic dimensions included, are kept. *)
C8_ShapesPreserved ==
    /\ Loaded => ShapesKept(inputFile, model)
    /\ Completed => ShapesKept(inputFile, outputFile)

\* a two-dimensional initializer and a symbolic declaration were rewritten
C8_Witness ==
    /\ Completed /\ run = 1
    /\ \E i \in Idx(inputFile.initializer) :
         /\ inputFile.initializer[i].data_type = "FLOAT"
         /\ outputFile.initializer[i].data_type = "FLOAT16"
         /\ outputFile.initializer[i].dims = <<1, 2>>
    /\ inputFile.input[1].elem_type = "FLOAT"
    /\ outputFile.input[1].elem_type = "FLOAT16"
    /\ outputFile.input[1].shape = DynShape

\* a converter has chosen the entry to load
Selected == script \in {"simple", "to_onnx"} /\ state_dict # NoGraph

(* C9: the entry a converter script loads is checkpoint["params_ema"] when
   that key is present (also beside "params"), checkpoint["params"] when only
   that one is, and the top-level mapping otherwise; and on the checkpoint at
   hand the two scripts choose the same entry. *)
C9_KeyPrecedence ==
    Selected =>
        /\ "params_ema" \in DOMAIN checkpoint => state_dict = checkpoint["params_ema"]
        /\ ("params_ema" \notin DOMAIN checkpoint /\ "params" \in DOMAIN checkpoint)
              => state_dict = checkpoint["params"]
        /\ ("params_ema" \notin DOMAIN checkpoint /\ "params" \notin DOMAIN checkpoint)
              => state_dict = checkpoint
        /\ load_model_select(checkpoint) = load_realesrgan_model_select(checkpoint)

\* both keys present, with different contents
C9_Witness ==
    /\ Selected /\ script = "to_onnx"
    /\ {"params_ema", "params"} \subseteq DOMAIN checkpoint
    /\ checkpoint["params_ema"] # checkpoint["params"]
    /\ state_dict = checkpoint["params_ema"]

(* C10, for the two scripts it is drawn from (the simplified converter and
   the quantizer): a run whose verifier failed (structural check, execution
   or shape) ends with exit code 0, a warning printed, and the written output
   file still there. *)
C10_VerificationAdvisory ==
    (script \in {"simple", "quantize"} /\ pc = "exit"
       /\ verifyResult \in {"check_failed", "run_failed", "input_rejected",
                            "shape_mismatch"}) =>
        /\ exitCode = "0"
        /\ outputFile # NoFile

(* C11: in every verifier run of every script, a call that executes the
   graph (session.run on the synthetic input) comes after a call of the
   format's structural check (onnx.checker.check_model) in the same run. *)
C11_CheckedBeforeRun ==
    \A i \in Idx(steps) :
        steps[i] = "session_run" => \E j \in 1..(i - 1) : steps[j] = "check_model"

Passes == {"initializer_pass", "interface_pass", "node_pass"}

(* C13: in the quantizer the output file is written only by the save step,
   the save step comes after all three passes have run to their end without
   error in the same run, and a run in which a pass failed has ended with no
   save step and no output file. *)
C13_SaveAfterPasses ==
    script = "quantize" =>
        /\ \A i \in Idx(steps) :
             steps[i] = "save" =>
                \A p \in Passes : \E j \in 1..(i - 1) : steps[j] = p
        /\ Completed => \E i \in Idx(steps) : steps[i] = "save"
        /\ PassFailed =>
             /\ outputFile = NoFile
             /\ \A i \in Idx(steps) : steps[i] # "save"

\* a first run that rewrote its graph and then wrote it
C13_Witness ==
    /\ Completed /\ run = 1
    /\ steps = <<"initializer_pass", "interface_pass", "node_pass", "save">>
    /\ outputFile.initializer # inputFile.initializer
    /\ outputFile.node # inputFile.node

\* bytes per element of a tag
ElemWidth(tag) ==
    CASE tag = "FLOAT" -> 4 [] tag = "FLOAT16" -> 2 [] tag = "INT64" -> 8 [] OTHER -> 1

\* a tensor's payload in bytes: raw_data, or one 32-bit float per float_data entry
PayloadBytes(t) == IF t.has_raw THEN Len(t.raw_data) ELSE 4 * Len(t.float_data)

Consistent(t) == PayloadBytes(t) = Prod(t.dims) * ElemWidth(t.data_type)

PayloadTensors(g) ==
    { g.initializer[i] : i \in Idx(g.initializer) } \cup AttrTensors(g)

(* C12 as stated: when the quantizer has completed, every initializer and
   every tensor embedded in a node attribute of the written graph has
   payload byte length = number of elements of its shape x byte width of its
   tag. *)
C12_PayloadInvariant ==
    Completed => \A t \in PayloadTensors(outputFile) : Consistent(t)

\* b is a, or b is a converted: FLOAT16, length fitting the shape, half of a's
KeptOrHalved(a, b) ==
    \/ b = a
    \/ /\ a.data_type = "FLOAT" /\ b.data_type = "FLOAT16"
       /\ Consistent(b)
       /\ 2 * PayloadBytes(b) = PayloadBytes(a)

InStep(g, h) ==
    /\ Len(h.initializer) = Len(g.initializer)
    /\ \A i \in Idx(g.initializer) : KeptOrHalved(g.initializer[i], h.initializer[i])
    /\ Len(h.node) = Len(g.node)
    /\ \A n \in Idx(g.node) :
         /\ Len(h.node[n].attribute) = Len(g.node[n].attribute)
         /\ \A a \in Idx(g.node[n].attribute) :
              /\ KeptOrHalved(g.node[n].attribute[a].t, h.node[n].attribute[a].t)
              /\ h.node[n].attribute[a].tensors = g.node[n].attribute[a].tensors

\* every FLOAT initializer and single-tensor attribute of g is converted in h
AllHalved(g, h) ==
    /\ \A i \in Idx(g.initializer) :
         g.initializer[i].data_type = "FLOAT" => h.initializer[i] # g.initializer[i]
    /\ \A n \in Idx(g.node) : \A a \in Idx(g.node[n].attribute) :
         attr_guard(g.node[n].attribute[a]) =>
            h.node[n].attribute[a].t # g.node[n].attribute[a].t

(* C12 amended: at every point of the rewrite and in the written file, each
   initializer and single-tensor attribute is either exactly as read or
   converted, and a converted one is tagged FLOAT16 with payload byte length
   = elements x 2, exactly half of its 32-bit payload; in the written file
   every one read as FLOAT is converted.  A tensor the rewrite does not
   convert keeps the tag and payload it was read with. *)
C12_ConvertedInStep ==
    /\ Loaded => InStep(inputFile, model)
    /\ Completed => (InStep(inputFile, outputFile) /\ AllHalved(inputFile, outputFile))

\* converted tensors (one read from float_data) beside a malformed INT64 one
C12_Witness ==
    /\ Completed /\ run = 1
    /\ \E i, j \in Idx(inputFile.initializer) :
         /\ inputFile.initializer[i] = W_fd
         /\ PayloadBytes(outputFile.initializer[i]) = 4
         /\ inputFile.initializer[j] = W_intbad
         /\ ~Consistent(outputFile.initializer[j])
    /\ "FLOAT16" \in AttrTags(outputFile)

====
